---- MODULE Spec2Model ----
(***************************************************************************)
(* getDeviceInfo (src/script.js): the probe orchestrator gatherAll, its    *)
(* twelve probes, the refresh button handler and the loader gate initFlow, *)
(* on the browser's event loop.                                            *)
(*                                                                         *)
(* Event loop: a task (DOMContentLoaded, a click, a timer, the settling of *)
(* a browser promise, a geolocation callback) runs only when no JavaScript *)
(* is running and the microtask queue is empty.  A gatherAll run that is   *)
(* "running" owns the thread (it is in its synchronous part or has a       *)
(* continuation in the microtask queue); a run that is "waiting" awaits a  *)
(* browser promise or callback.  Time is counted in seconds and advances  *)
(* from one timer deadline to the next.                                    *)
(*                                                                         *)
(* The page is taken to have the #loader and #refreshBtn elements (without *)
(* them the same runs happen, minus the reveal and the clicks); the #cards *)
(* container may be missing.  A click may come at any time the button is   *)
(* enabled, also before DOMContentLoaded and while the loader is shown.    *)
(***************************************************************************)
EXTENDS Integers, Sequences, FiniteSets, TLC

\* ---------------------------------------------------------------- bounds
MaxRefresh == 1          \* refresh clicks in one page load

\* ------------------------------------------------------ program constants
NumProbes == 12          \* length of the probes array of gatherAll
MIN_WAIT == 7            \* setTimeout(res, 7000) of initFlow, in seconds
GEO_TIMEOUT == 8         \* setTimeout(rej, 8000) of gatherGeo, in seconds

RunIds == 0 .. MaxRefresh     \* 0: the run of initFlow; k: the k-th click

\* ------------------------------------------------------ JavaScript values
\* Every value is a string; the three values below stand for undefined,
\* null and the empty string.
UNDEF == "<undefined>"
NULL == "<null>"
EMPTY == ""

\* String(val)
String(val) == IF val = NULL THEN "null" ELSE IF val = UNDEF THEN "undefined" ELSE val

\* a ?? b
Nullish(a, b) == IF a \in {UNDEF, NULL} THEN b ELSE a

\* a || b on strings, null and undefined
OrElse(a, b) == IF a \in {UNDEF, NULL, EMPTY, "0", "false"} THEN b ELSE a

\* Timer states: an armed timer holds the seconds left, 0 .. n.
TimerOff == -1
TimerFired == -2

\* ---------------------------------------------------------- DOM helpers
\* mkKV(key, val): the row <<key text, value text>>.
mkKV(key, val) ==
    <<key, IF val = UNDEF \/ val = NULL \/ val = EMPTY THEN "unknown" ELSE String(val)>>

\* The contentEl argument of mkCard: a string or an element holding rows.
Text(s) == [isString |-> TRUE, text |-> s, rows |-> <<>>]
Element(rows) == [isString |-> FALSE, text |-> EMPTY, rows |-> rows]

\* mkCard(title, contentEl): the h3 text, the p text (NULL when the card has
\* no p element) and the rows of the appended element.
mkCard(title, contentEl) ==
    IF contentEl.isString
    THEN [title |-> title, p |-> OrElse(contentEl.text, "unknown"), rows |-> <<>>]
    ELSE [title |-> title, p |-> NULL, rows |-> contentEl.rows]

\* How a row's value was obtained (history of the row, not part of the DOM):
\*   "value"   the query returned a value
\*   "missing" the query returned null, undefined or ""
\*   "threw"   the query threw or its promise rejected
\*   "absent"  an explicit capability check found the API absent
\*   "note"    a fixed informational text
OriginOf(raw) == IF raw \in {UNDEF, NULL, EMPTY} THEN "missing" ELSE "value"

\* A row with its origin: <<key, value text, origin>>.
Row(kv, origin) == <<kv[1], kv[2], origin>>


\* ---------------------------------------------- the sample environment
\* The values the synchronous probes read (a Firefox-like browser: no
\* userAgentData, no deviceMemory, no Network Information API, vendor "").
navigator ==
    [userAgent |-> "Mozilla/5.0", userAgentData |-> UNDEF, platform |-> "Linux x86_64",
     language |-> "en-US", languages |-> "en-US, en", cookieEnabled |-> "true",
     doNotTrack |-> NULL, vendor |-> EMPTY, hardwareConcurrency |-> "8",
     deviceMemory |-> UNDEF, maxTouchPoints |-> "0", onLine |-> "true",
     connection |-> UNDEF]

\* window.screen, devicePixelRatio and the viewport.
screen ==
    [width |-> "1920", height |-> "1080", availWidth |-> "1920", availHeight |-> "1040",
     colorDepth |-> "24", pixelRatio |-> "1", innerWidth |-> "1280", innerHeight |-> "720",
     orientationType |-> "landscape-primary", orientationAngle |-> "0"]

\* The battery manager navigator.getBattery() resolves with.
battery ==
    [charging |-> "true", level |-> "0.87", chargingTime |-> "0",
     dischargingTime |-> "Infinity"]

\* The names gatherPermissions queries, in order.
names ==
    <<"geolocation", "microphone", "camera", "notifications", "persistent-storage",
      "push", "clipboard-read", "clipboard-write", "background-sync">>

\* What navigator.permissions.query({name}) does in the sample browser: it
\* returns a promise that resolves later with a state, or, for a name it does
\* not know, a promise that is already rejected (REJECT).
REJECT == "<rejects>"
PermissionSample(name) ==
    IF name \in {"microphone", "camera", "clipboard-read", "clipboard-write", "background-sync"}
    THEN REJECT
    ELSE IF name = "persistent-storage" THEN "granted" ELSE "prompt"

\* The environments the probes are run in.  Each set lists outcomes of one
\* capability check; the probes' other branches are written out below and
\* are taken when a set is widened.
GLSamples == {"context"}                 \* of {"context", "null", "throws"}
Browsers ==
    [screen : BOOLEAN,            \* the global screen is declared
     getBattery : BOOLEAN,        \* navigator.getBattery exists
     geolocation : BOOLEAN,       \* 'geolocation' in navigator
     permissions : BOOLEAN,       \* navigator.permissions.query exists
     mediaDevices : BOOLEAN]      \* navigator.mediaDevices.enumerateDevices exists
PerformanceSamples == {FALSE}            \* performance.* throws: of BOOLEAN
MotionSamples == {"defined"}             \* of {"undefined", "defined", "requestPermission"}
AccelerometerSamples == {FALSE}          \* of BOOLEAN
CanvasSamples == {"drawn", "throws"}
AudioSamples == {"available"}            \* of {"available", "limited", "undefined", "throws"}

\* ---------------------------------------------------------------- state
VARIABLES
    CARDS_ROOT,   \* TRUE iff document.getElementById('cards') found an element
    browser,      \* which APIs this browser has, one of Browsers
    cards,        \* the children of CARDS_ROOT: title, p text, and who appended it
    lastCard,     \* the card appended last, with its rows
    runs,         \* the gatherAll calls: runs[0] by initFlow, runs[k] by click k
    flow,         \* initFlow: "unloaded", "awaiting" (Promise.all), "done"
    minWait,      \* the 7 s timer of initFlow
    loader,       \* loader.style.display: "shown" or "none"
    REFRESH_BTN,  \* [disabled, textContent] of the refresh button
    clicks,       \* refresh clicks handled so far
    handler       \* the click handler: "idle" or "awaiting" (await gatherAll())

vars == <<CARDS_ROOT, browser, cards, lastCard, runs, flow, minWait, loader, REFRESH_BTN, clicks, handler>>

\* A gatherAll call that has not started.
\*   st         "none", "running", "waiting", "resolved", "rejected"
\*   pc         index of the probe being run, 1 .. 12 (13 after the loop)
\*   at         where the probe waits: "", "battery", "geoPerm", "geoPos", "media", "perm"
\*   el         the rows the probe has built so far
\*   permState  the local permState of gatherGeo
\*   timer      the 8 s timer t of gatherGeo
\*   n          index into names of gatherPermissions
\*   failed     the probes that threw in this call (history)
\*   overlapped TRUE iff another call was in progress during this one (history)
NoRun ==
    [st |-> "none", pc |-> 1, at |-> "", el |-> <<>>, permState |-> "unknown",
     timer |-> TimerOff, n |-> 1, failed |-> {}, overlapped |-> FALSE]

\* No card yet; from tells what resumed the probe that built the card: "" (it
\* never waited), the await it waited at, or "geoTimeout" (the timer t).
NoCard == [title |-> "", p |-> NULL, rows |-> <<>>, probe |-> 0, run |-> 0, from |-> ""]

Running(r) == runs[r].st = "running"
Waiting(r, where) == runs[r].st = "waiting" /\ runs[r].at = where
InProgress(r) == runs[r].st \in {"running", "waiting"}

Init ==
    /\ CARDS_ROOT \in BOOLEAN
    /\ browser \in Browsers
    /\ cards = <<>>
    /\ lastCard = NoCard
    /\ runs = [r \in RunIds |-> NoRun]
    /\ flow = "unloaded"
    /\ minWait = TimerOff
    /\ loader = "shown"
    /\ REFRESH_BTN = [disabled |-> FALSE, textContent |-> "Refresh data"]
    /\ clicks = 0
    /\ handler = "idle"

\* ------------------------------------------------------------ gatherAll
\* Lines 316-317 and the start of the loop: without the container the call
\* returns at once; otherwise the container is emptied and probe 1 begins.
gatherAllStart(r) ==
    IF ~CARDS_ROOT
    THEN /\ runs' = [runs EXCEPT ![r] = [NoRun EXCEPT !.st = "resolved"]]
         /\ UNCHANGED <<cards, lastCard>>
    ELSE /\ cards' = <<>>
         /\ lastCard' = NoCard
         /\ runs' = [q \in RunIds |->
                       IF q = r
                       THEN [NoRun EXCEPT !.st = "running",
                                          !.overlapped = \E o \in RunIds \ {r} : InProgress(o)]
                       ELSE IF InProgress(q) THEN [runs[q] EXCEPT !.overlapped = TRUE]
                       ELSE runs[q]]

\* for (const p of probes): the next iteration, or the end of the call.
LoopNext(run) ==
    IF run.pc = NumProbes
    THEN [run EXCEPT !.st = "resolved", !.pc = NumProbes + 1, !.at = "", !.el = <<>>,
                     !.permState = "unknown", !.n = 1]
    ELSE [run EXCEPT !.st = "running", !.pc = @ + 1, !.at = "", !.el = <<>>,
                     !.permState = "unknown", !.n = 1]

\* The child appended for a card.
Child(card, r) == [title |-> card.title, p |-> card.p, probe |-> runs[r].pc, run |-> r]

\* try { const card = await p(); CARDS_ROOT.appendChild(card) }
Fulfilled(r, run, card) ==
    /\ cards' = Append(cards, Child(card, r))
    /\ lastCard' = [card EXCEPT !.probe = runs[r].pc, !.run = r, !.from = run.at]
    /\ runs' = [runs EXCEPT ![r] = LoopNext(run)]

\* A variant of Thrown without the try/catch of the loop: the call rejects.
ThrownUncaught(r, run) ==
    /\ runs' = [runs EXCEPT ![r] = [run EXCEPT !.st = "rejected", !.failed = @ \cup {run.pc}]]
    /\ UNCHANGED <<cards, lastCard>>

\* A variant of Thrown whose catch swallows the error and appends nothing.
ThrownNoCard(r, run) ==
    /\ runs' = [runs EXCEPT ![r] = LoopNext([run EXCEPT !.failed = @ \cup {run.pc}])]
    /\ UNCHANGED <<cards, lastCard>>

\* catch(e) { CARDS_ROOT.appendChild(mkCard('error', 'unknown')) }
Thrown(r, run) ==
    LET card == mkCard("error", Text("unknown")) IN
    /\ cards' = Append(cards, Child(card, r))
    /\ lastCard' = [title |-> card.title, p |-> card.p, rows |-> card.rows,
                    probe |-> runs[r].pc, run |-> r, from |-> runs[r].at]
    /\ runs' = [runs EXCEPT ![r] = LoopNext([run EXCEPT !.failed = @ \cup {run.pc}])]

\* A probe that returns a card built from rows, its locals being those of run.
ReturnsFrom(r, run, title, rows) ==
    LET card == mkCard(title, Element(rows)) IN
    Fulfilled(r, run, [title |-> card.title, p |-> card.p, rows |-> card.rows,
                       probe |-> 0, run |-> 0, from |-> ""])
Returns(r, title, rows) == ReturnsFrom(r, runs[r], title, rows)

\* The synchronous part of probe i of call r may run.
AtProbe(r, i) == Running(r) /\ runs[r].pc = i /\ runs[r].at = ""

\* What the rest of the page does not touch while gatherAll runs.
Page == <<CARDS_ROOT, browser, flow, minWait, loader, REFRESH_BTN, clicks, handler>>

\* A variant of InitFlowSettled that races the two promises (Promise.race).
InitFlowRace ==
    /\ flow = "awaiting"
    /\ runs[0].st \in {"resolved", "rejected"} \/ minWait = TimerFired

\* The promise initFlow awaits is settled: Promise.all rejects as soon as
\* gatherPromise does, and resolves once both have resolved.
InitFlowSettled ==
    /\ flow = "awaiting"
    /\ \/ runs[0].st = "rejected"
       \/ runs[0].st = "resolved" /\ minWait = TimerFired
\* The promise the click handler awaits is settled.
HandlerSettled == handler = "awaiting" /\ runs[clicks].st \in {"resolved", "rejected"}
\* No JavaScript is running and no continuation is queued: a new task may run.
EventLoopIdle ==
    /\ \A r \in RunIds : ~Running(r)
    /\ ~InitFlowSettled
    /\ ~HandlerSettled

\* --------------------------------------------------------------- probes
\* safe(fn, fallback) for a synchronous fn: threw is TRUE when fn throws.
safe(threw, v, fallback) == IF threw THEN fallback ELSE Nullish(v, fallback)

gatherBasic(r) ==
    /\ AtProbe(r, 1)
    /\ Returns(r, "Browser & Locale",
         << Row(mkKV("userAgent", OrElse(navigator.userAgent, "unknown")),
                OriginOf(navigator.userAgent)),
            Row(mkKV("userAgentData",
                     safe(FALSE, IF navigator.userAgentData # UNDEF
                                 THEN navigator.userAgentData ELSE "unsupported", "unknown")),
                IF navigator.userAgentData # UNDEF THEN "value" ELSE "absent"),
            Row(mkKV("platform", OrElse(navigator.platform, "unknown")),
                OriginOf(navigator.platform)),
            Row(mkKV("language", OrElse(navigator.language, "unknown")),
                OriginOf(navigator.language)),
            Row(mkKV("languages", OrElse(navigator.languages, "unknown")),
                OriginOf(navigator.languages)),
            Row(mkKV("cookieEnabled", navigator.cookieEnabled),
                OriginOf(navigator.cookieEnabled)),
            Row(mkKV("doNotTrack", OrElse(navigator.doNotTrack, "unknown")),
                OriginOf(navigator.doNotTrack)),
            Row(mkKV("vendor", OrElse(navigator.vendor, "unknown")),
                OriginOf(navigator.vendor)) >>)
    /\ UNCHANGED Page

\* The global screen may be undeclared: line 75 then throws a ReferenceError
\* after the rows are built, and the promise of the probe rejects.  (The
\* degree sign of the orientation row is written "deg".)
gatherScreen(r) ==
    /\ AtProbe(r, 2)
    /\ IF ~browser.screen
       THEN Thrown(r, runs[r])
       ELSE Returns(r, "Display & Viewport",
                << Row(mkKV("screenWxH", OrElse(screen.width, "unknown") \o " x "
                                         \o OrElse(screen.height, "unknown")), "value"),
                   Row(mkKV("availWxH", OrElse(screen.availWidth, "unknown") \o " x "
                                        \o OrElse(screen.availHeight, "unknown")), "value"),
                   Row(mkKV("colorDepth", Nullish(screen.colorDepth, "unknown")),
                       OriginOf(screen.colorDepth)),
                   Row(mkKV("pixelRatio", Nullish(screen.pixelRatio, "unknown")),
                       OriginOf(screen.pixelRatio)),
                   Row(mkKV("viewportWxH", String(screen.innerWidth) \o " x "
                                           \o String(screen.innerHeight)), "value"),
                   Row(mkKV("orientation", OrElse(screen.orientationType, "unknown") \o " @ "
                                           \o OrElse(screen.orientationAngle, "0") \o "deg"),
                       "value") >>)
    /\ UNCHANGED Page

\* canvas.getContext('webgl'): a context, null, or a throw.
gatherHardware(r) ==
    /\ AtProbe(r, 3)
    /\ \E gl \in GLSamples :
         Returns(r, "Hardware Hints",
           << Row(mkKV("hardwareConcurrency", Nullish(navigator.hardwareConcurrency, "unknown")),
                  OriginOf(navigator.hardwareConcurrency)),
              Row(mkKV("deviceMemory", Nullish(navigator.deviceMemory, "unknown")),
                  OriginOf(navigator.deviceMemory)),
              Row(mkKV("maxTouchPoints", Nullish(navigator.maxTouchPoints, "unknown")),
                  OriginOf(navigator.maxTouchPoints)) >>
           \o (CASE gl = "null" -> << Row(mkKV("webgl", "unsupported"), "absent") >>
                 [] gl = "throws" -> << Row(mkKV("webgl", "unknown"), "threw") >>
                 [] OTHER -> << Row(mkKV("webglVendor", "Mozilla"), "value"),
                                Row(mkKV("webglRenderer", "llvmpipe"), "value") >>))
    /\ UNCHANGED Page

\* navigator.getBattery absent: the card is built at once.  Present: the
\* probe awaits the promise (or getBattery throws inside the try).
gatherBattery(r) ==
    /\ AtProbe(r, 4)
    /\ IF ~browser.getBattery
       THEN Returns(r, "Battery", << Row(mkKV("battery", "unsupported"), "absent") >>)
       ELSE /\ runs' = [runs EXCEPT ![r].st = "waiting", ![r].at = "battery"]
            /\ UNCHANGED <<cards, lastCard>>
    /\ UNCHANGED Page

\* The battery promise settles.
BatterySettled(r) ==
    /\ EventLoopIdle
    /\ Waiting(r, "battery")
    /\ \E ok \in BOOLEAN :
         IF ok
         THEN Returns(r, "Battery",
                << Row(mkKV("charging", battery.charging), OriginOf(battery.charging)),
                   Row(mkKV("level", battery.level), OriginOf(battery.level)),
                   Row(mkKV("chargingTime", battery.chargingTime), OriginOf(battery.chargingTime)),
                   Row(mkKV("dischargingTime", battery.dischargingTime),
                       OriginOf(battery.dischargingTime)) >>)
         ELSE Returns(r, "Battery", << Row(mkKV("battery", "unknown"), "threw") >>)
    /\ UNCHANGED Page

gatherNetwork(r) ==
    /\ AtProbe(r, 5)
    /\ Returns(r, "Network",
         << Row(mkKV("online", navigator.onLine), OriginOf(navigator.onLine)) >>
         \o (IF navigator.connection # UNDEF
             THEN << Row(mkKV("effectiveType", "4g"), "value"),
                     Row(mkKV("downlink", "10"), "value"),
                     Row(mkKV("rtt", "50"), "value"),
                     Row(mkKV("saveData", "false"), "value") >>
             ELSE << Row(mkKV("networkAPI", "unsupported"), "absent") >>)
         \o << Row(mkKV("publicIP", "unknown (use server or STUN)"), "note") >>)
    /\ UNCHANGED Page

\* A variant of MayRequestPosition that only excludes "denied".
MayRequestUnlessDenied(permState) == permState # "denied"

\* The test of line 151: the position is requested for these states only.
MayRequestPosition(permState) == permState = "granted" \/ permState = "prompt"

\* A variant of GeoAfterPermission that arms no timer.
GeoAfterPermissionNoTimer(r, permState, origin) ==
    LET el == << Row(mkKV("permission", permState), origin) >> IN
    IF MayRequestPosition(permState)
    THEN /\ runs' = [runs EXCEPT ![r].st = "waiting", ![r].at = "geoPos", ![r].el = el,
                                 ![r].permState = permState]
         /\ UNCHANGED <<cards, lastCard>>
    ELSE Returns(r, "Geolocation",
           el \o << Row(mkKV("coords", "unknown (permission denied or prompt)"), "note") >>)

\* Lines 150-166, up to the await of the position promise: the permission
\* row, then either the request (timer t armed, getCurrentPosition called)
\* or the card without a request.
GeoAfterPermission(r, permState, origin) ==
    LET el == << Row(mkKV("permission", permState), origin) >> IN
    IF MayRequestPosition(permState)
    THEN /\ runs' = [runs EXCEPT ![r].st = "waiting", ![r].at = "geoPos", ![r].el = el,
                                 ![r].permState = permState, ![r].timer = GEO_TIMEOUT]
         /\ UNCHANGED <<cards, lastCard>>
    ELSE Returns(r, "Geolocation",
           el \o << Row(mkKV("coords", "unknown (permission denied or prompt)"), "note") >>)

\* 'geolocation' in navigator; navigator.permissions.query absent, throwing,
\* or returning a promise the probe awaits.
gatherGeo(r) ==
    /\ AtProbe(r, 6)
    /\ IF ~browser.geolocation
       THEN Returns(r, "Geolocation", << Row(mkKV("geolocation", "unsupported"), "absent") >>)
       ELSE IF ~browser.permissions
       THEN GeoAfterPermission(r, "unknown", "note")
       ELSE /\ runs' = [runs EXCEPT ![r].st = "waiting", ![r].at = "geoPerm"]
            /\ UNCHANGED <<cards, lastCard>>
    /\ UNCHANGED Page

\* The permission query settles: p.state, or a rejection.
GeoPermissionSettled(r) ==
    /\ EventLoopIdle
    /\ Waiting(r, "geoPerm")
    /\ \E state \in {"granted", "prompt", "denied", REJECT} :
         IF state = REJECT
         THEN GeoAfterPermission(r, "unknown", "threw")
         ELSE GeoAfterPermission(r, state, "value")
    /\ UNCHANGED Page

\* The rows of the catch of line 161.
GeoBlocked(el) == el \o << Row(mkKV("coords", "unknown or blocked"), "threw") >>

\* The success callback: clearTimeout(t); res(p).
GeoPosition(r) ==
    /\ EventLoopIdle
    /\ Waiting(r, "geoPos")
    /\ \E altitude \in {NULL, "35"} :
         ReturnsFrom(r, [runs[r] EXCEPT !.timer = TimerOff], "Geolocation",
           runs[r].el \o
           << Row(mkKV("coords", "48.85" \o ", " \o "2.35"), "value"),
              Row(mkKV("accuracy_m", "20"), "value"),
              Row(mkKV("altitude", Nullish(altitude, "null")), OriginOf(altitude)) >>)
    /\ UNCHANGED Page

\* The error callback: clearTimeout(t); rej(err).
GeoError(r) ==
    /\ EventLoopIdle
    /\ Waiting(r, "geoPos")
    /\ ReturnsFrom(r, [runs[r] EXCEPT !.timer = TimerOff], "Geolocation", GeoBlocked(runs[r].el))
    /\ UNCHANGED Page

\* The timer t fires: rej(new Error('timeout')).
GeoTimeout(r) ==
    /\ EventLoopIdle
    /\ Waiting(r, "geoPos")
    /\ runs[r].timer = 0
    /\ ReturnsFrom(r, [runs[r] EXCEPT !.timer = TimerOff, !.at = "geoTimeout"], "Geolocation",
                   GeoBlocked(runs[r].el))
    /\ UNCHANGED Page

gatherMediaDevices(r) ==
    /\ AtProbe(r, 7)
    /\ IF ~browser.mediaDevices
       THEN Returns(r, "Media Devices", << Row(mkKV("mediaDevices", "unsupported"), "absent") >>)
       ELSE /\ runs' = [runs EXCEPT ![r].st = "waiting", ![r].at = "media"]
            /\ UNCHANGED <<cards, lastCard>>
    /\ UNCHANGED Page

\* enumerateDevices settles.
MediaSettled(r) ==
    /\ EventLoopIdle
    /\ Waiting(r, "media")
    /\ \E ok \in BOOLEAN :
         IF ok
         THEN Returns(r, "Media & Devices",
                << Row(mkKV("count", "3"), "value"),
                   Row(mkKV("kinds", "{audioinput:1,videoinput:1,audiooutput:1}"), "value"),
                   Row(mkKV("deviceLabelsAvailable", "false"), "value") >>)
         ELSE Returns(r, "Media & Devices", << Row(mkKV("mediaDevices", "unknown"), "threw") >>)
    /\ UNCHANGED Page

\* The row of names[n] once its query has settled.
PermissionRow(n) ==
    LET q == PermissionSample(names[n]) IN
    IF q = REJECT THEN Row(mkKV(names[n], "unknown"), "threw")
    ELSE Row(mkKV(names[n], q), OriginOf(q))

\* The loop of line 199 from names[n] on, as far as it gets without waiting:
\* a query that rejects at once (a name the browser does not know) is
\* caught in the same turn; a pending query makes the probe wait.  The
\* result is the rows added and the index reached (Len(names) + 1: the end).
RECURSIVE QueryFrom(_, _)
QueryFrom(el, n) ==
    IF n > Len(names) THEN [el |-> el, n |-> n]
    ELSE IF PermissionSample(names[n]) = REJECT THEN QueryFrom(Append(el, PermissionRow(n)), n + 1)
    ELSE [el |-> el, n |-> n]

\* navigator.permissions.query absent: one row.  Present: the first query.
gatherPermissions(r) ==
    /\ AtProbe(r, 8)
    /\ IF ~browser.permissions
       THEN Returns(r, "Permissions", << Row(mkKV("permissionsAPI", "unsupported"), "absent") >>)
       ELSE LET next == QueryFrom(<<>>, 1) IN
            IF next.n > Len(names)
            THEN Returns(r, "Permissions", next.el)
            ELSE /\ runs' = [runs EXCEPT ![r].st = "waiting", ![r].at = "perm",
                                         ![r].el = next.el, ![r].n = next.n]
                 /\ UNCHANGED <<cards, lastCard>>
    /\ UNCHANGED Page

\* The pending query of names[n] resolves; the loop goes on.
PermissionSettled(r) ==
    /\ EventLoopIdle
    /\ Waiting(r, "perm")
    /\ LET next == QueryFrom(Append(runs[r].el, PermissionRow(runs[r].n)), runs[r].n + 1) IN
       IF next.n > Len(names)
       THEN Returns(r, "Permissions", next.el)
       ELSE /\ runs' = [runs EXCEPT ![r].el = next.el, ![r].n = next.n]
            /\ UNCHANGED <<cards, lastCard>>
    /\ UNCHANGED Page

\* performance.* read inside one try.
gatherPerformance(r) ==
    /\ AtProbe(r, 9)
    /\ \E throws \in PerformanceSamples :
         IF throws
         THEN Returns(r, "Performance", << Row(mkKV("performance", "unknown"), "threw") >>)
         ELSE Returns(r, "Performance",
                << Row(mkKV("timeOrigin", "1700000000000"), "value"),
                   Row(mkKV("domContentLoaded", "120"), "value"),
                   Row(mkKV("loadEventEnd", "0"), "value"),
                   Row(mkKV("perfNow", "130"), "value") >>)
    /\ UNCHANGED Page

gatherSensors(r) ==
    /\ AtProbe(r, 10)
    /\ \E DeviceMotionEvent \in MotionSamples, Accelerometer \in AccelerometerSamples :
         Returns(r, "Sensors",
           (CASE DeviceMotionEvent = "requestPermission" ->
                   << Row(mkKV("DeviceMotion API", "requires gesture to request"), "note"),
                      Row(mkKV("deviceMotionPermission", "not-requested"), "note") >>
              [] DeviceMotionEvent = "defined" ->
                   << Row(mkKV("DeviceMotion API", "available (may be restricted)"), "note") >>
              [] OTHER -> << Row(mkKV("DeviceMotion API", "unsupported"), "absent") >>)
           \o << IF Accelerometer THEN Row(mkKV("GenericSensor", "available"), "note")
                 ELSE Row(mkKV("GenericSensor", "unsupported"), "absent") >>)
    /\ UNCHANGED Page

\* The canvas part throws (getContext('2d') null, toDataURL blocked) or not;
\* the audio part finds a full or limited AudioContext, none, or throws.  The
\* 60 ms timer that stops the oscillator touches nothing modelled here.
gatherCanvasAudioFingerprintingProbe(r) ==
    /\ AtProbe(r, 11)
    /\ \E canvas \in CanvasSamples, AudioCtx \in AudioSamples :
         Returns(r, "Canvas / Audio Probes",
           << IF canvas = "throws" THEN Row(mkKV("canvasProbe", "error"), "threw")
              ELSE Row(mkKV("canvasProbe", "data:image/png;base64" \o "..."), "value"),
              CASE AudioCtx = "available" -> Row(mkKV("audioContext", "available"), "note")
                [] AudioCtx = "limited" -> Row(mkKV("audioContext", "limited"), "note")
                [] AudioCtx = "undefined" -> Row(mkKV("audioContext", "unsupported"), "absent")
                [] OTHER -> Row(mkKV("audioContext", "error"), "threw") >>)
    /\ UNCHANGED Page

\* The features list; reading navigator.serviceWorker may throw (a
\* SecurityError in a sandboxed frame), outside any try: the promise of the
\* probe then rejects.
gatherWebAPIs(r) ==
    /\ AtProbe(r, 12)
    /\ \E securityError \in BOOLEAN :
       IF securityError
       THEN Thrown(r, runs[r])
       ELSE Returns(r, "Web APIs",
                [i \in 1 .. 11 |->
                   Row(mkKV(<<"ServiceWorker", "localStorage", "IndexedDB", "FileSystem Access",
                             "Clipboard (write)", "Clipboard (read)", "WebBluetooth", "WebUSB",
                             "WebSerial", "WebHID", "Gamepad">>[i],
                            IF i \in {1, 2, 3, 5, 6, 11} THEN "true" ELSE "false"), "value")])
    /\ UNCHANGED Page

\* ------------------------------------------------- initFlow and refresh
\* A variant of LoaderOnRefresh that shows the loader again.
LoaderReshown == "shown"

\* What the click handler does to the loader: nothing.
LoaderOnRefresh == loader

\* DOMContentLoaded: initFlow() calls gatherAll(), arms the 7 s timer and
\* awaits Promise.all([gatherPromise, minWait]).
DOMContentLoaded ==
    /\ EventLoopIdle
    /\ flow = "unloaded"
    /\ gatherAllStart(0)
    /\ minWait' = MIN_WAIT
    /\ flow' = "awaiting"
    /\ UNCHANGED <<CARDS_ROOT, browser, loader, REFRESH_BTN, clicks, handler>>

\* The 7 s timer fires: res().
MinWaitFired ==
    /\ EventLoopIdle
    /\ minWait = 0
    /\ minWait' = TimerFired
    /\ UNCHANGED <<CARDS_ROOT, browser, cards, lastCard, runs, flow, loader, REFRESH_BTN, clicks, handler>>

\* initFlow after the await (line 351), or the catch of line 367 when the
\* awaited promise rejected: either way the loader is hidden.
InitFlowResume ==
    /\ InitFlowSettled
    /\ loader' = "none"
    /\ flow' = "done"
    /\ UNCHANGED <<CARDS_ROOT, browser, cards, lastCard, runs, minWait, REFRESH_BTN, clicks, handler>>

\* A click on the enabled refresh button: the handler disables the button
\* and awaits gatherAll().
Click ==
    /\ EventLoopIdle
    /\ ~REFRESH_BTN.disabled
    /\ clicks < MaxRefresh
    /\ clicks' = clicks + 1
    /\ REFRESH_BTN' = [disabled |-> TRUE, textContent |-> "Refreshing..."]
    /\ gatherAllStart(clicks + 1)
    /\ handler' = "awaiting"
    /\ loader' = LoaderOnRefresh
    /\ UNCHANGED <<CARDS_ROOT, browser, flow, minWait>>

\* The handler after await gatherAll(): the button is enabled again (a
\* rejected call would leave it disabled).
HandlerResume ==
    /\ HandlerSettled
    /\ handler' = "idle"
    /\ REFRESH_BTN' = IF runs[clicks].st = "resolved"
                      THEN [disabled |-> FALSE, textContent |-> "Refresh data"]
                      ELSE REFRESH_BTN
    /\ UNCHANGED <<CARDS_ROOT, browser, cards, lastCard, runs, flow, minWait, loader, clicks>>

\* The seconds left on the armed timers that are not due yet.
Pending == ({minWait} \cup {runs[r].timer : r \in RunIds}) \ {TimerOff, TimerFired, 0}

\* Time passes until the next armed timer is due: every armed timer comes
\* that much closer.
Tick ==
    /\ EventLoopIdle
    /\ Pending # {}
    /\ LET d == CHOOSE x \in Pending : \A y \in Pending : x <= y IN
       /\ minWait' = IF minWait > 0 THEN minWait - d ELSE minWait
       /\ runs' = [r \in RunIds |->
                     IF runs[r].timer > 0 THEN [runs[r] EXCEPT !.timer = @ - d] ELSE runs[r]]
    /\ UNCHANGED <<CARDS_ROOT, browser, cards, lastCard, flow, loader, REFRESH_BTN, clicks, handler>>

\* ---------------------------------------------------------- specification
Probe(r) ==
    \/ gatherBasic(r)
    \/ gatherScreen(r)
    \/ gatherHardware(r)
    \/ gatherBattery(r)
    \/ BatterySettled(r)
    \/ gatherNetwork(r)
    \/ gatherGeo(r)
    \/ GeoPermissionSettled(r)
    \/ GeoPosition(r)
    \/ GeoError(r)
    \/ GeoTimeout(r)
    \/ gatherMediaDevices(r)
    \/ MediaSettled(r)
    \/ gatherPermissions(r)
    \/ PermissionSettled(r)
    \/ gatherPerformance(r)
    \/ gatherSensors(r)
    \/ gatherCanvasAudioFingerprintingProbe(r)
    \/ gatherWebAPIs(r)

\* The steps the event loop takes by itself: running JavaScript, queued
\* continuations, the passing of time and the firing of due timers.
Scheduled ==
    \/ \E r \in RunIds :
         \/ gatherBasic(r) \/ gatherScreen(r) \/ gatherHardware(r) \/ gatherBattery(r)
         \/ gatherNetwork(r) \/ gatherGeo(r) \/ gatherMediaDevices(r) \/ gatherPermissions(r)
         \/ gatherPerformance(r) \/ gatherSensors(r)
         \/ gatherCanvasAudioFingerprintingProbe(r) \/ gatherWebAPIs(r)
         \/ GeoTimeout(r)
    \/ InitFlowResume
    \/ HandlerResume
    \/ MinWaitFired
    \/ Tick

Next ==
    \/ DOMContentLoaded
    \/ MinWaitFired
    \/ InitFlowResume
    \/ Click
    \/ HandlerResume
    \/ Tick
    \/ \E r \in RunIds : Probe(r)

Spec == Init /\ [][Next]_vars

\* The event loop keeps running: JavaScript that can run does, time passes
\* and due timers fire.  Nothing obliges the browser to settle a promise or
\* call a callback, nor the user to click.
FairSpec == Spec /\ WF_vars(Scheduled)

\* ---------------------------------------------------------------- claims
Resolves(r) == runs[r].st # "resolved" /\ runs'[r].st = "resolved"
ErrorGroup(c) == c.title = "error" /\ c.p = "unknown"
GeoCard(c) == c.probe = 6 /\ c.title = "Geolocation"
DeniedRow == <<"coords", "unknown (permission denied or prompt)", "note">>
BlockedRow == <<"coords", "unknown or blocked", "threw">>
NoAsyncAPI ==
    ~browser.getBattery /\ ~browser.geolocation /\ ~browser.permissions /\ ~browser.mediaDevices

\* C1 as stated: no gatherAll call ever rejects, and a call that has
\* completed has attempted all 12 probes.
C1_AsStated ==
    \A r \in RunIds :
      /\ runs[r].st # "rejected"
      /\ runs[r].st = "resolved" => runs[r].pc = NumProbes + 1

\* C1 amended: no gatherAll call ever rejects; a call that has completed has
\* attempted all 12 probes when the cards container exists and none when it
\* does not; and where every asynchronous API is absent no call ever waits.
C1_Theorem ==
    \A r \in RunIds :
      /\ runs[r].st # "rejected"
      /\ runs[r].st = "resolved" => runs[r].pc = IF CARDS_ROOT THEN NumProbes + 1 ELSE 1
      /\ NoAsyncAPI => runs[r].st # "waiting"

C1_Witness ==
    \E r \in RunIds :
      /\ runs[r].st = "resolved" /\ CARDS_ROOT /\ NoAsyncAPI
      /\ runs[r].failed = {2, 12}

\* C2: when a gatherAll call performed alone completes, the container holds
\* exactly 12 groups, the i-th made for probe i by this call, and group i is
\* the generic error group (title 'error', content 'unknown') exactly when
\* probe i threw.
C2_Theorem ==
    [][\A r \in RunIds :
         (Resolves(r) /\ CARDS_ROOT /\ ~runs'[r].overlapped) =>
           /\ Len(cards') = NumProbes
           /\ \A i \in 1 .. NumProbes :
                /\ cards'[i].probe = i
                /\ cards'[i].run = r
                /\ i \in runs'[r].failed <=> ErrorGroup(cards'[i])
                /\ i \notin runs'[r].failed => cards'[i].title # "error" /\ cards'[i].p = NULL]_vars

C2_Witness ==
    \E r \in RunIds :
      /\ runs[r].st = "resolved" /\ ~runs[r].overlapped
      /\ runs[r].failed = {2}
      /\ Len(cards) = NumProbes
      /\ ErrorGroup(cards[2]) /\ cards[3].title = "Hardware Hints" /\ cards[12].title = "Web APIs"

\* C3 as stated: the groups in the container are always in the declared
\* probe order.
C3_AsStated ==
    \A i, j \in 1 .. Len(cards) : i < j => cards[i].probe < cards[j].probe

\* C4 as stated: whenever a gatherAll call completes, the container holds
\* only groups of that call, one per probe.
C4_AsStated ==
    [][\A r \in RunIds :
         (Resolves(r) /\ CARDS_ROOT) =>
           /\ Len(cards') = NumProbes
           /\ \A i \in 1 .. Len(cards') : cards'[i].run = r]_vars

C6_Theorem ==
    /\ \A r \in RunIds : runs[r].at = "geoPos" => runs[r].permState \in {"granted", "prompt"}
    /\ (/\ GeoCard(lastCard)
        /\ lastCard.rows[1][1] = "permission"
        /\ lastCard.rows[1][2] \notin {"granted", "prompt"}) =>
          /\ lastCard.from # "geoPos"
          /\ lastCard.rows[1][2] \in {"denied", "unknown"}
          /\ Len(lastCard.rows) = 2
          /\ lastCard.rows[2] = DeniedRow

C6_Witness ==
    /\ GeoCard(lastCard)
    /\ lastCard.rows[1] = <<"permission", "denied", "value">>
    /\ lastCard.rows[2] = DeniedRow

\* C7 as stated: a row whose queried value was null, undefined or '' or
\* whose query threw shows exactly 'unknown', and a row of an explicit
\* capability-absence check shows 'unsupported'.
C7_AsStated ==
    \A i \in 1 .. Len(lastCard.rows) :
      /\ lastCard.rows[i][3] \in {"missing", "threw"} => lastCard.rows[i][2] = "unknown"
      /\ lastCard.rows[i][3] = "absent" => lastCard.rows[i][2] = "unsupported"

\* C8 as stated: at most one gatherAll call is in progress.
C8_AsStated == Cardinality({r \in RunIds : InProgress(r)}) <= 1

\* C9: the loader only ever changes from shown to hidden; a refresh click
\* starts a gatherAll call and leaves the loader, the 7 s timer and initFlow
\* as they are, and so does the end of the click handler.
C9_Theorem ==
    [][/\ loader = "none" => loader' = "none"
       /\ clicks' # clicks =>
            /\ runs[clicks'].st = "none" /\ runs'[clicks'].st \in {"running", "resolved"}
            /\ loader' = loader /\ minWait' = minWait /\ flow' = flow
       /\ (handler = "awaiting" /\ handler' = "idle") =>
            /\ loader' = loader /\ minWait' = minWait /\ flow' = flow]_vars

C9_Witness ==
    /\ loader = "none" /\ clicks >= 1 /\ CARDS_ROOT
    /\ runs[clicks].st = "resolved" /\ handler = "idle" /\ ~REFRESH_BTN.disabled
    /\ ~runs[clicks].overlapped

\* C10: a gatherGeo that waits for the position always gets on: the call
\* reaches the next probe with the Geolocation group appended, and when it
\* was the 8 s timer that ended the wait the group's coords row is
\* 'unknown or blocked'.
C10_Theorem ==
    \A r \in RunIds :
      Waiting(r, "geoPos") ~>
        (/\ runs[r].pc = 7
         /\ GeoCard(lastCard) /\ lastCard.run = r
         /\ lastCard.from = "geoTimeout" => lastCard.rows[2] = BlockedRow)

C10_Witness ==
    \E r \in RunIds :
      /\ runs[r].pc = 7
      /\ GeoCard(lastCard) /\ lastCard.run = r /\ lastCard.from = "geoTimeout"
      /\ lastCard.rows[2] = BlockedRow

====
